---- MODULE Spec2Model ----
(***************************************************************************)
(* CheckDosDevice (src/CheckDosDevice.c): a CLI command that looks a DOS   *)
(* device up in the AmigaDOS device list, classifies its mount status and  *)
(* optionally prints device information or a mountlist entry.             *)
(*                                                                         *)
(* The program is modelled as a state machine with a program counter `pc`  *)
(* and a return stack; each OS call of the source is a step.  The device   *)
(* list lives in `heap` (node address -> DeviceNode) and may be changed by *)
(* other tasks (EnvRemoveNode) whenever the Forbid() nesting count is 0.   *)
(* Strings are sequences of one-character strings; BCPL strings are        *)
(* records [null, len, chars].                                             *)
(*                                                                         *)
(* Scope: runs in which the Context allocation of GetContext (line 104)    *)
(* succeeded.  FindMatchingDevices has no caller in the file; it is        *)
(* analysed as a second entry point (entry = "FindMatchingDevices").       *)
(***************************************************************************)
EXTENDS Integers, Sequences, FiniteSets, TLC

VARIABLES
  entry,        \* procedure the run starts in: "main" or "FindMatchingDevices"
  pc,           \* label of the next step
  stack,        \* return labels of the active calls
  args,         \* struct Arguments as filled by ReadArgs, plus the pattern argument
  heap,         \* node address -> struct DeviceNode (valid = still allocated)
  head,         \* dosInfo->di_DevInfo
  forbidCnt,    \* Forbid() nesting count of this task
  windowPtr,    \* proc->pr_WindowPtr
  startWindowPtr, \* pr_WindowPtr when the process started (never changes)
  res,          \* resource -> [acq, rel]: acquisitions and releases so far
  m,            \* locals of main
  d,            \* locals of CheckDeviceDriver
  u,            \* locals of FindDeviceByDriverAndUnit
  f,            \* locals of FindDosDevice
  c,            \* locals of CheckDeviceStatus
  p,            \* locals of FindMatchingDevices
  out,          \* lines printed so far
  trace,        \* OS calls and procedure calls made so far
  exitCode,     \* process return code, NoExit while running
  envSteps,     \* changes other tasks made to the device list so far
  typeTag,      \* argument of a call of GetHandlerFromDosType made on its own
  handlerPath   \* what that call returned

vars == << entry, pc, stack, args, heap, head, forbidCnt, windowPtr,
           startWindowPtr, res, m, d, u, f, c, p, out, trace, exitCode, envSteps,
           typeTag, handlerPath >>

-----------------------------------------------------------------------------
(* Program constants *)

RC_OK == 0
RC_WARN == 5
RC_ERROR == 10
RC_FAIL == 20

\* sizeof(devName), sizeof(cleanName), sizeof(foundDevice), sizeof(handlerName)
NameBufSize == 108
\* sizeof(volumeName) in main and FindMatchingDevices
VolumeBufSize == 64
\* (APTR)-1L: requesters suppressed
WindowPtrSuppress == -1
\* environ->de_TableSize >= 12: the extended DosEnvec fields exist
DE_DOSTYPE_SIZE == 12

\* return values of CheckDeviceStatus
StatusMounted == 0
StatusNoDisk == 1
StatusNotFound == -1

NULL == 0
\* exitCode while the process has not returned
NoExit == -1
\* value of an int local that has not been assigned yet
Unset == -99

-----------------------------------------------------------------------------
(* Bounds of the model *)

\* how many times other tasks may change the device list during one run
MaxEnvSteps == 1

-----------------------------------------------------------------------------
(* Strings *)

LowerCase == << "a","b","c","d","e","f","g","h","i","j","k","l","m",
                "n","o","p","q","r","s","t","u","v","w","x","y","z" >>
UpperCase == << "A","B","C","D","E","F","G","H","I","J","K","L","M",
                "N","O","P","Q","R","S","T","U","V","W","X","Y","Z" >>
Digits == << "0","1","2","3","4","5","6","7","8","9" >>

ToUpper(ch) ==
  IF \E i \in 1..26 : LowerCase[i] = ch
  THEN UpperCase[CHOOSE i \in 1..26 : LowerCase[i] = ch]
  ELSE ch

\* stricmp(a, b) == 0
StricmpEq(a, b) ==
  /\ Len(a) = Len(b)
  /\ \A i \in 1..Len(a) : ToUpper(a[i]) = ToUpper(b[i])

\* strnicmp(a, b, n) == 0: the first n characters agree, a terminator in
\* both strings at the same place ends the comparison early
StrnicmpEq(a, b, n) ==
  \A i \in 1..n :
    \/ (i <= Len(a) /\ i <= Len(b) /\ ToUpper(a[i]) = ToUpper(b[i]))
    \/ \E j \in 1..i : (j > Len(a) /\ j > Len(b)
                        /\ \A k \in 1..(j-1) : ToUpper(a[k]) = ToUpper(b[k]))

IsDigit(ch) == \E i \in 1..10 : Digits[i] = ch
DigitVal(ch) == (CHOOSE i \in 1..10 : Digits[i] = ch) - 1

\* only the first character tested
IsNumber_FirstCharOnly(str) == Len(str) > 0 /\ IsDigit(str[1])

IsNumber(str) ==
  /\ Len(str) > 0
  /\ \A i \in 1..Len(str) : IsDigit(str[i])

\* atol: the value of the leading digits, stopping at the first other character
RECURSIVE AtolFrom(_, _)
AtolFrom(str, acc) ==
  IF Len(str) = 0 \/ ~IsDigit(Head(str)) THEN acc
  ELSE AtolFrom(Tail(str), 10 * acc + DigitVal(Head(str)))

Atol(str) == AtolFrom(str, 0)

\* strncpy into a buffer of bufSize, then drop one trailing colon
StripDeviceName(deviceName, bufSize) ==
  LET copied == IF Len(deviceName) > bufSize - 1
                THEN SubSeq(deviceName, 1, bufSize - 1)
                ELSE deviceName
      len == Len(copied)
  IN IF len > 0 /\ copied[len] = ":" THEN SubSeq(copied, 1, len - 1) ELSE copied

\* a BCPL string: BADDR(bptr) is NULL, or a length byte followed by characters
NullBstr == [null |-> TRUE, len |-> 0, chars |-> << >>]
Bstr(s) == [null |-> FALSE, len |-> Len(s), chars |-> s]

\* bstrName[0] read through a (signed) char pointer
LenByte(b) == IF b.len >= 128 THEN b.len - 256 ELSE b.len

\* if (bstrName && bstrName[0] > 0) { len = bstrName[0]; if (len < size - 1) ...
BstrFits(b, size) == ~b.null /\ LenByte(b) > 0 /\ LenByte(b) < size - 1
\* memcpy(buf, &bstrName[1], len); buf[len] = '\0'
BstrCopy(b) == SubSeq(b.chars, 1, b.len)

DefaultDriver == << "d","i","s","k","i","m","a","g","e",".","d","e","v","i","c","e" >>
TrackDriver == << "t","r","a","c","k","d","i","s","k",".","d","e","v","i","c","e" >>


-----------------------------------------------------------------------------
(* Filesystem handler paths returned by GetHandlerFromDosType *)

L_FastFileSystem == << "L",":","F","a","s","t","F","i","l","e","S","y","s","t","e","m" >>
L_PFSFileSystem == << "L",":","P","F","S","F","i","l","e","S","y","s","t","e","m" >>
L_SmartFilesystem == << "L",":","S","m","a","r","t","F","i","l","e","s","y","s","t","e","m" >>
L_NetBSDFileSystem == << "L",":","N","e","t","B","S","D","F","i","l","e","S","y","s","t","e","m" >>
L_MultiUserFileSystem == << "L",":","M","u","l","t","i","U","s","e","r","F","i","l","e","S","y","s","t","e","m" >>
L_AmiFileSafe == << "L",":","A","m","i","F","i","l","e","S","a","f","e" >>
L_CrossDOSFileSystem == << "L",":","C","r","o","s","s","D","O","S","F","i","l","e","S","y","s","t","e","m" >>

DOS0 == 1146049280
PFS0 == 1346786048
SFS0 == 1397117696
NBU0 == 1312969984
NBU_SP == 1312970016
MUFS == 1836410483
AFS0 == 1095127808
MSD0 == 1297302528

\* the CrossDOS test made without the mask
GetHandlerFromDosType_ExactMSD(dosType) ==
  CASE dosType \in DOS0..(DOS0 + 7) -> L_FastFileSystem
    [] dosType \in PFS0..(PFS0 + 2) -> L_PFSFileSystem
    [] dosType = SFS0 -> L_SmartFilesystem
    [] dosType \in {NBU0, NBU_SP} -> L_NetBSDFileSystem
    [] dosType = MUFS -> L_MultiUserFileSystem
    [] dosType \in {AFS0, AFS0 + 1} -> L_AmiFileSafe
    [] OTHER -> IF dosType = MSD0 THEN L_CrossDOSFileSystem ELSE L_FastFileSystem

GetHandlerFromDosType(dosType) ==
  CASE dosType \in DOS0..(DOS0 + 7) -> L_FastFileSystem
    [] dosType \in PFS0..(PFS0 + 2) -> L_PFSFileSystem
    [] dosType = SFS0 -> L_SmartFilesystem
    [] dosType \in {NBU0, NBU_SP} -> L_NetBSDFileSystem
    [] dosType = MUFS -> L_MultiUserFileSystem
    [] dosType \in {AFS0, AFS0 + 1} -> L_AmiFileSafe
    [] OTHER -> IF dosType \div 256 = MSD0 \div 256
                THEN L_CrossDOSFileSystem
                ELSE L_FastFileSystem

-----------------------------------------------------------------------------
(* The DOS device list *)

DLT_DEVICE == 0
DLT_VOLUME == 2

NoEnviron == [null |-> TRUE, de_TableSize |-> 0, de_DosType |-> 0]
Environ(tableSize, dosType) ==
  [null |-> FALSE, de_TableSize |-> tableSize, de_DosType |-> dosType]

NoStartup ==
  [null |-> TRUE, fssm_Device |-> NullBstr, fssm_Unit |-> 0,
   fssm_Flags |-> 0, fssm_Environ |-> NoEnviron]
Startup(device, unit, flags, environ) ==
  [null |-> FALSE, fssm_Device |-> device, fssm_Unit |-> unit,
   fssm_Flags |-> flags, fssm_Environ |-> environ]

Node(name, type, startup, handler) ==
  [valid |-> TRUE, dn_Name |-> name, dn_Type |-> type, dn_Startup |-> startup,
   dn_Handler |-> handler, dn_Next |-> NULL]

\* a name of 107 characters: one more than the decode buffers take
LongName == [i \in 1..(NameBufSize - 1) |-> "X"]

N_DF0 ==
  Node(Bstr(<< "D","F","0" >>), DLT_DEVICE,
       Startup(Bstr(TrackDriver), 0, 0, Environ(16, DOS0 + 1)), NullBstr)
N_IHD0 ==
  Node(Bstr(<< "I","H","D","0" >>), DLT_DEVICE,
       Startup(Bstr(<< "D","i","s","k","I","m","a","g","e",".","d","e","v","i","c","e" >>),
               0, 1, Environ(16, MSD0 + 1)),
       Bstr(L_CrossDOSFileSystem))
N_IHD7 ==
  Node(Bstr(<< "i","h","d","7" >>), DLT_DEVICE,
       Startup(Bstr(DefaultDriver), 7, 0, Environ(11, 0)), NullBstr)
N_Work ==
  Node(Bstr(<< "W","o","r","k" >>), DLT_VOLUME, NoStartup, NullBstr)
N_NoName ==
  Node(NullBstr, DLT_DEVICE, Startup(Bstr(DefaultDriver), 0, 0, NoEnviron), NullBstr)
N_Long ==
  Node(Bstr(LongName), DLT_DEVICE, Startup(Bstr(DefaultDriver), 7, 0, NoEnviron),
       NullBstr)

\* a node whose name has length 0
N_Empty ==
  Node(Bstr(<< >>), DLT_DEVICE, Startup(Bstr(DefaultDriver), 7, 0, NoEnviron),
       NullBstr)

\* a handler-only device: a handler string and no startup info
L_RamHandler == << "L",":","R","a","m","-","H","a","n","d","l","e","r" >>
N_RAM ==
  Node(Bstr(<< "R","A","M" >>), DLT_DEVICE, NoStartup, Bstr(L_RamHandler))

\* the device lists a run may start with, in list order
DeviceLists ==
  { << >>,
    << N_DF0, N_IHD0 >>,
    << N_Work, N_IHD7, N_DF0 >>,
    << N_NoName, N_Long, N_IHD0 >>,
    << N_NoName, N_Empty, N_DF0, N_RAM >> }

\* the list laid out in memory: node i at address i, linked in order
HeapOf(list) ==
  [a \in 1..Len(list) |->
     [list[a] EXCEPT !.dn_Next = IF a < Len(list) THEN a + 1 ELSE NULL]]

\* what a freed node may read as, besides its old contents
GarbageNodes ==
  { [valid |-> FALSE, dn_Name |-> Bstr(<< "?","?" >>), dn_Type |-> 7,
     dn_Startup |-> NoStartup, dn_Handler |-> NullBstr, dn_Next |-> NULL] }

\* the values a read of *node can yield
Deref(node) ==
  IF heap[node].valid THEN {heap[node]} ELSE {heap[node]} \cup GarbageNodes

RECURSIVE ReachFrom(_, _)
ReachFrom(a, fuel) ==
  IF a = NULL \/ fuel = 0 THEN {} ELSE {a} \cup ReachFrom(heap[a].dn_Next, fuel - 1)
\* the nodes linked into the device list
InList == ReachFrom(head, Len(heap))

-----------------------------------------------------------------------------
(* Command lines *)

\* an argument of 109 characters: 108 letters and a colon
LongArg == [i \in 1..(NameBufSize + 1) |-> IF i = NameBufSize + 1 THEN ":" ELSE "X"]

DeviceArgs ==
  { << "D","F","0" >>, << "i","h","d","0",":" >>, << "0" >>, << "7" >>,
    << "N","O","N","E" >>, << >>, << "7","x" >>, << "0",":" >>, << "/" >>,
    << "d","f","0",":",":" >>, LongArg, << "R","A","M" >> }

DriverArgs == { << >>, TrackDriver }   \* << >>: DRIVER not given (NULL)

Patterns == { << "I","H","*" >>, << "d","f","0","*" >>, << "D","F","0" >> }

\* a buffer that has not been written yet
Uninit == << "~" >>

MainLocals ==
  [rdArgs |-> FALSE, quiet |-> FALSE, driverName |-> << >>, oldWindowPtr |-> Unset,
   cleanName |-> Uninit, foundDevice |-> Uninit, deviceNode |-> NULL,
   status |-> Unset, returnCode |-> RC_ERROR, volumeName |-> Uninit,
   unitNum |-> Unset]
DriverLocals == [driverName |-> << >>, msgPort |-> FALSE, ioReq |-> FALSE,
                 available |-> FALSE, error |-> Unset]
UnitLocals == [driverName |-> << >>, unitNum |-> Unset, deviceNode |-> NULL,
               found |-> FALSE, foundName |-> Uninit]
FindLocals == [deviceName |-> << >>, deviceNode |-> NULL, result |-> NULL]
StatusLocals == [deviceName |-> << >>, cleanName |-> Uninit, deviceNode |-> NULL,
                 lock |-> FALSE, infoData |-> FALSE, status |-> StatusNotFound,
                 volumeName |-> Uninit, info |-> "not called", id_DiskType |-> 0]
MatchLocals == [pattern |-> << >>, deviceNode |-> NULL, devName |-> Uninit,
                foundAny |-> FALSE, status |-> Unset, volumeName |-> Uninit]

Resources == {"context", "rdArgs", "msgPort", "ioReq", "device", "lock", "infoData"}

Init ==
  /\ entry \in {"main", "FindMatchingDevices"}
  /\ pc = entry
  /\ stack = << >>
  /\ \E dev \in DeviceArgs, drv \in DriverArgs, q, i, ml \in BOOLEAN, pat \in Patterns :
       /\ entry = "main" => pat = << "I","H","*" >>
       /\ entry = "FindMatchingDevices" =>
            (dev = << "0" >> /\ drv = << >> /\ ~q /\ ~i /\ ~ml)
       /\ args = [device |-> dev, quiet |-> q, driver |-> drv, info |-> i,
                  mountlist |-> ml, pattern |-> pat]
  /\ \E list \in DeviceLists : heap = HeapOf(list) /\ head = IF Len(list) > 0 THEN 1 ELSE NULL
  /\ forbidCnt = 0
  /\ windowPtr \in {NULL, 4096}
  /\ startWindowPtr = windowPtr
  /\ res = [r \in Resources |-> [acq |-> 0, rel |-> 0]]
  /\ m = MainLocals
  /\ d = DriverLocals
  /\ u = UnitLocals
  /\ f = FindLocals
  /\ c = StatusLocals
  /\ p = MatchLocals
  /\ out = << >>
  /\ trace = << >>
  /\ exitCode = NoExit
  /\ envSteps = 0
  /\ typeTag = 0
  /\ handlerPath = Uninit

-----------------------------------------------------------------------------
(* Helpers shared by the steps *)

Acquire(r, what) == [r EXCEPT ![what].acq = @ + 1]
Release(r, what) == [r EXCEPT ![what].rel = @ + 1]

\* one printed line: its kind, up to two string arguments and a number
Line(k, s, t, n) == [k |-> k, s |-> s, t |-> t, n |-> n]
\* OPrintf: prints unless context->quiet
OPrintf(o, lines) == IF m.quiet THEN o ELSE o \o lines

Call(label, retLabel) == pc' = label /\ stack' = << retLabel >> \o stack
Return == pc' = Head(stack) /\ stack' = Tail(stack)

\* exitWith(rc): the context is freed and the process returns rc
ExitWith(rc, r) ==
  /\ res' = Release(r, "context")
  /\ exitCode' = rc
  /\ pc' = "done"
  /\ stack' = stack

-----------------------------------------------------------------------------
(* main, lines 736-786: argument parsing and the driver check *)

\* driverName = args.driver ? args.driver : "diskimage.device"
DriverNameOf(a) == IF a.driver = << >> THEN DefaultDriver ELSE a.driver

\* context->quiet = args.quiet ? TRUE : FALSE
QuietOf(a) == a.quiet

UsageLines == << Line("usage", << >>, << >>, 0) >>

\* lines 739-781: GetContext, ReadArgs, quiet flag, driver name, requesters off,
\* then the call of CheckDeviceDriver
main_ReadArgs ==
  /\ pc = "main"
  /\ \E parsed \in BOOLEAN :
       IF ~parsed
       THEN /\ out' = out \o UsageLines          \* Printf, not OPrintf
            /\ trace' = trace \o << "GetContext", "ReadArgs" >>
            /\ ExitWith(RC_ERROR, Acquire(res, "context"))
            /\ UNCHANGED << m, d, windowPtr >>
       ELSE /\ m' = [m EXCEPT !.rdArgs = TRUE,
                              !.quiet = QuietOf(args),
                              !.driverName = DriverNameOf(args),
                              !.oldWindowPtr = windowPtr]
            /\ windowPtr' = WindowPtrSuppress
            /\ res' = Acquire(Acquire(res, "context"), "rdArgs")
            /\ d' = [DriverLocals EXCEPT !.driverName = DriverNameOf(args)]
            /\ trace' = trace \o << "GetContext", "ReadArgs", "CheckDeviceDriver" >>
            /\ Call("cdd_CreateMsgPort", "main_DriverChecked")
            /\ UNCHANGED << out, exitCode >>
  /\ UNCHANGED << typeTag, handlerPath, entry, args, heap, head, forbidCnt, startWindowPtr, u, f, c, p,
                  envSteps >>

-----------------------------------------------------------------------------
(* CheckDeviceDriver, lines 155-188 *)

\* lines 162-165
cdd_CreateMsgPort ==
  /\ pc = "cdd_CreateMsgPort"
  /\ \E ok \in BOOLEAN :
       IF ok
       THEN /\ d' = [d EXCEPT !.msgPort = TRUE]
            /\ res' = Acquire(res, "msgPort")
            /\ pc' = "cdd_CreateIORequest"
            /\ stack' = stack
       ELSE /\ d' = [d EXCEPT !.available = FALSE]
            /\ res' = res
            /\ Return
  /\ trace' = Append(trace, "CreateMsgPort")
  /\ UNCHANGED << typeTag, handlerPath, entry, args, heap, head, forbidCnt, windowPtr, startWindowPtr,
                  m, u, f, c, p, out, exitCode, envSteps >>

\* lines 168-172
cdd_CreateIORequest ==
  /\ pc = "cdd_CreateIORequest"
  /\ \E ok \in BOOLEAN :
       IF ok
       THEN /\ d' = [d EXCEPT !.ioReq = TRUE]
            /\ res' = Acquire(res, "ioReq")
            /\ trace' = Append(trace, "CreateIORequest")
            /\ pc' = "cdd_OpenDevice"
            /\ stack' = stack
       ELSE /\ d' = [d EXCEPT !.available = FALSE]
            /\ res' = Release(res, "msgPort")
            /\ trace' = trace \o << "CreateIORequest", "DeleteMsgPort" >>
            /\ Return
  /\ UNCHANGED << typeTag, handlerPath, entry, args, heap, head, forbidCnt, windowPtr, startWindowPtr,
                  m, u, f, c, p, out, exitCode, envSteps >>

\* line 175: error = OpenDevice(driverName, 0, ioReq, 0); may block
cdd_OpenDevice ==
  /\ pc = "cdd_OpenDevice"
  /\ \E error \in {0, 1} :
       /\ d' = [d EXCEPT !.error = error]
       /\ res' = IF error = 0 THEN Acquire(res, "device") ELSE res
  /\ trace' = Append(trace, "OpenDevice")
  /\ pc' = "cdd_CloseDevice"
  /\ UNCHANGED << typeTag, handlerPath, entry, stack, args, heap, head, forbidCnt, windowPtr,
                  startWindowPtr, m, u, f, c, p, out, exitCode, envSteps >>

\* the device closed whether or not it was opened
OpenSucceeded_Always(error) == TRUE

\* line 177: if (error == 0)
OpenSucceeded(error) == error = 0

\* lines 177-181
cdd_CloseDevice ==
  /\ pc = "cdd_CloseDevice"
  /\ IF OpenSucceeded(d.error)
     THEN /\ d' = [d EXCEPT !.available = TRUE]
          /\ res' = Release(res, "device")
          /\ trace' = Append(trace, "CloseDevice")
     ELSE UNCHANGED << d, res, trace >>
  /\ pc' = "cdd_Cleanup"
  /\ UNCHANGED << typeTag, handlerPath, entry, stack, args, heap, head, forbidCnt, windowPtr,
                  startWindowPtr, m, u, f, c, p, out, exitCode, envSteps >>

\* lines 184-187
cdd_Cleanup ==
  /\ pc = "cdd_Cleanup"
  /\ res' = Release(Release(res, "ioReq"), "msgPort")
  /\ d' = [d EXCEPT !.ioReq = FALSE, !.msgPort = FALSE]
  /\ trace' = trace \o << "DeleteIORequest", "DeleteMsgPort" >>
  /\ Return
  /\ UNCHANGED << typeTag, handlerPath, entry, args, heap, head, forbidCnt, windowPtr, startWindowPtr,
                  m, u, f, c, p, out, exitCode, envSteps >>

-----------------------------------------------------------------------------
(* main, lines 780-814: driver unavailable, numeric or named device *)

\* the result of the driver check ignored
DriverMissing_Ignored(available) == FALSE

\* line 781: if (!CheckDeviceDriver(driverName))
DriverMissing(available) == ~available

\* the requester state left as it is
RestoredWindowPtr_Forgotten(old) == windowPtr

\* lines 861, 783, 806: proc->pr_WindowPtr = oldWindowPtr
RestoredWindowPtr(old) == old

main_DriverChecked ==
  /\ pc = "main_DriverChecked"
  /\ IF DriverMissing(d.available)
     THEN \* lines 782-785
          /\ out' = OPrintf(out, << Line("driver not available", m.driverName, << >>, 0) >>)
          /\ windowPtr' = RestoredWindowPtr(m.oldWindowPtr)
          /\ trace' = Append(trace, "FreeArgs")
          /\ ExitWith(RC_FAIL, Release(res, "rdArgs"))
          /\ UNCHANGED << m, u, f >>
     ELSE IF IsNumber(args.device)
     THEN \* lines 789-799
          /\ m' = [m EXCEPT !.unitNum = Atol(args.device)]
          /\ u' = [UnitLocals EXCEPT !.driverName = m.driverName,
                                     !.unitNum = Atol(args.device)]
          /\ trace' = Append(trace, "FindDeviceByDriverAndUnit")
          /\ Call("fdu_Forbid", "main_UnitResolved")
          /\ UNCHANGED << out, windowPtr, res, exitCode, f >>
     ELSE \* lines 811-817
          /\ m' = [m EXCEPT !.cleanName = StripDeviceName(args.device, NameBufSize)]
          /\ f' = [FindLocals EXCEPT
                     !.deviceName = StripDeviceName(args.device, NameBufSize)]
          /\ trace' = Append(trace, "FindDosDevice")
          /\ Call("fdd_Forbid", "main_NodeLookedUp")
          /\ UNCHANGED << out, windowPtr, res, exitCode, u >>
  /\ UNCHANGED << typeTag, handlerPath, entry, args, heap, head, forbidCnt, startWindowPtr, d, c, p,
                  envSteps >>

-----------------------------------------------------------------------------
(* FindDeviceByDriverAndUnit, lines 278-350 *)

\* lines 292-304: foundName[0] = '\0'; Forbid(); deviceNode = first node
fdu_Forbid ==
  /\ pc = "fdu_Forbid"
  /\ u' = [u EXCEPT !.foundName = << >>, !.deviceNode = head]
  /\ forbidCnt' = forbidCnt + 1
  /\ pc' = "fdu_Scan"
  /\ UNCHANGED << typeTag, handlerPath, entry, stack, args, heap, head, windowPtr, startWindowPtr, res,
                  m, d, f, c, p, out, trace, exitCode, envSteps >>

\* lines 308-325: the node has startup info naming this driver and unit
DriverUnitMatches(n, driverName, unitNum) ==
  /\ ~n.dn_Startup.null
  /\ BstrFits(n.dn_Startup.fssm_Device, NameBufSize)
  /\ StricmpEq(BstrCopy(n.dn_Startup.fssm_Device), driverName)
  /\ n.dn_Startup.fssm_Unit = unitNum

\* lines 327-335: found needs a non-empty DOS name
UnitFound(n, driverName, unitNum) ==
  /\ DriverUnitMatches(n, driverName, unitNum)
  /\ ~n.dn_Name.null
  /\ LenByte(n.dn_Name) > 0

\* lines 329-333: the name is copied only if it fits nameSize
UnitFoundName(n, old, nameSize) ==
  IF LenByte(n.dn_Name) < nameSize - 1 THEN BstrCopy(n.dn_Name) ELSE old

\* lines 306-345: one turn of the loop, or its end
fdu_Scan ==
  /\ pc = "fdu_Scan"
  /\ IF u.deviceNode # NULL /\ ~u.found
     THEN /\ \E n \in Deref(u.deviceNode) :
               u' = [u EXCEPT
                       !.found = UnitFound(n, u.driverName, u.unitNum),
                       !.foundName =
                          IF UnitFound(n, u.driverName, u.unitNum)
                          THEN UnitFoundName(n, u.foundName, NameBufSize)
                          ELSE u.foundName,
                       !.deviceNode = n.dn_Next]
          /\ pc' = pc
     ELSE /\ u' = u
          /\ pc' = "fdu_Permit"
  /\ UNCHANGED << typeTag, handlerPath, entry, stack, args, heap, head, forbidCnt, windowPtr,
                  startWindowPtr, res, m, d, f, c, p, out, trace, exitCode, envSteps >>

\* lines 347-349
fdu_Permit ==
  /\ pc = "fdu_Permit"
  /\ forbidCnt' = forbidCnt - 1
  /\ Return
  /\ UNCHANGED << typeTag, handlerPath, entry, args, heap, head, windowPtr, startWindowPtr, res,
                  m, d, u, f, c, p, out, trace, exitCode, envSteps >>

\* lines 799-810 and 817
main_UnitResolved ==
  /\ pc = "main_UnitResolved"
  /\ IF u.found
     THEN /\ out' = OPrintf(out, << Line("found unit", m.driverName, u.foundName, m.unitNum) >>)
          /\ m' = [m EXCEPT !.foundDevice = u.foundName,
                            !.cleanName = StripDeviceName(u.foundName, NameBufSize)]
          /\ f' = [FindLocals EXCEPT
                     !.deviceName = StripDeviceName(u.foundName, NameBufSize)]
          /\ trace' = Append(trace, "FindDosDevice")
          /\ Call("fdd_Forbid", "main_NodeLookedUp")
          /\ UNCHANGED << windowPtr, res, exitCode >>
     ELSE /\ out' = OPrintf(out, << Line("no unit", m.driverName, << >>, m.unitNum) >>)
          /\ m' = [m EXCEPT !.foundDevice = u.foundName]
          /\ windowPtr' = RestoredWindowPtr(m.oldWindowPtr)
          /\ trace' = Append(trace, "FreeArgs")
          /\ ExitWith(RC_ERROR, Release(res, "rdArgs"))
          /\ f' = f
  /\ UNCHANGED << typeTag, handlerPath, entry, args, heap, head, forbidCnt, startWindowPtr, d, u, c, p,
                  envSteps >>

-----------------------------------------------------------------------------
(* FindDosDevice, lines 580-621 *)

\* lines 588-595
fdd_Forbid ==
  /\ pc = "fdd_Forbid"
  /\ f' = [f EXCEPT !.deviceNode = head]
  /\ forbidCnt' = forbidCnt + 1
  /\ pc' = "fdd_Scan"
  /\ UNCHANGED << typeTag, handlerPath, entry, stack, args, heap, head, windowPtr, startWindowPtr, res,
                  m, d, u, c, p, out, trace, exitCode, envSteps >>

\* the comparison made with case
NameMatches_CaseSensitive(n, deviceName) ==
  /\ BstrFits(n.dn_Name, NameBufSize)
  /\ BstrCopy(n.dn_Name) = deviceName

\* lines 599-608: the node's name decodes and equals deviceName
NameMatches(n, deviceName) ==
  /\ BstrFits(n.dn_Name, NameBufSize)
  /\ StricmpEq(BstrCopy(n.dn_Name), deviceName)

\* lines 597-620: one turn of the loop; a match or the end of the list
\* releases the guard and returns
fdd_Scan ==
  /\ pc = "fdd_Scan"
  /\ IF f.deviceNode = NULL
     THEN /\ f' = [f EXCEPT !.result = NULL]
          /\ forbidCnt' = forbidCnt - 1
          /\ Return
     ELSE \E n \in Deref(f.deviceNode) :
            IF NameMatches(n, f.deviceName)
            THEN /\ f' = [f EXCEPT !.result = f.deviceNode]
                 /\ forbidCnt' = forbidCnt - 1
                 /\ Return
            ELSE /\ f' = [f EXCEPT !.deviceNode = n.dn_Next]
                 /\ UNCHANGED << forbidCnt, pc, stack >>
  /\ UNCHANGED << typeTag, handlerPath, entry, args, heap, head, windowPtr, startWindowPtr, res,
                  m, d, u, c, p, out, trace, exitCode, envSteps >>

-----------------------------------------------------------------------------
(* ShowDeviceInfo, lines 358-456 *)

\* lines 369-377
InfoTypeLine(n) ==
  CASE n.dn_Type = DLT_DEVICE -> Line("Type: Device", << >>, << >>, 0)
    [] n.dn_Type = DLT_VOLUME -> Line("Type: Volume", << >>, << >>, 0)
    [] OTHER -> Line("Type: Unknown", << >>, << >>, n.dn_Type)

\* lines 380-435
InfoStartupLines(n) ==
  IF n.dn_Startup.null
  THEN << Line("No startup information available", << >>, << >>, 0) >>
  ELSE LET st == n.dn_Startup
           env == st.fssm_Environ
       IN (IF BstrFits(st.fssm_Device, NameBufSize)
           THEN << Line("Driver", BstrCopy(st.fssm_Device), << >>, 0) >>
           ELSE << >>)
          \o << Line("Unit", << >>, << >>, st.fssm_Unit),
                Line("Flags", << >>, << >>, st.fssm_Flags) >>
          \o (IF env.null THEN << >>
              ELSE << Line("Environment", << >>, << >>, env.de_TableSize) >>
                   \o (IF env.de_TableSize >= DE_DOSTYPE_SIZE
                       THEN << Line("DosType", << >>, << >>, env.de_DosType) >>
                       ELSE << >>))

\* lines 438-453
InfoHandlerLines(n) ==
  IF n.dn_Handler.null THEN << >>
  ELSE << Line("Handler:", << >>, << >>, 0) >>
       \o (IF LenByte(n.dn_Handler) > 0
           THEN (IF LenByte(n.dn_Handler) < NameBufSize - 1
                 THEN << Line("handler name", BstrCopy(n.dn_Handler), << >>, 0) >>
                 ELSE << >>)
           ELSE << Line("handler address", << >>, << >>, 0) >>)

ShowDeviceInfo(deviceName, n) ==
  << Line("Device Information for", deviceName, << >>, 0), InfoTypeLine(n) >>
  \o InfoStartupLines(n) \o InfoHandlerLines(n)
  \o << Line("info end", << >>, << >>, 0) >>

-----------------------------------------------------------------------------
(* GenerateMountlist, lines 464-579 *)

\* lines 477-487: the entry's own handler string decodes
HasOwnHandler(n) == BstrFits(n.dn_Handler, NameBufSize)

\* lines 494-502: no own handler, but an extended environment with a DosType
UseAutoHandler(n) ==
  /\ ~HasOwnHandler(n)
  /\ ~n.dn_Startup.fssm_Environ.null
  /\ n.dn_Startup.fssm_Environ.de_TableSize >= DE_DOSTYPE_SIZE
  /\ n.dn_Startup.fssm_Environ.de_DosType # 0

\* lines 505-514
MountHandlerLines(n) ==
  IF HasOwnHandler(n)
  THEN << Line("Handler =", BstrCopy(n.dn_Handler), << >>, 0) >>
  ELSE IF UseAutoHandler(n)
  THEN << Line("Handler =",
               GetHandlerFromDosType(n.dn_Startup.fssm_Environ.de_DosType),
               << >>, 0),
          Line("Detected from DosType", << >>, << >>, 0) >>
  ELSE << Line("Handler =", L_FastFileSystem, << >>, 0),
          Line("Update as needed", << >>, << >>, 0) >>

\* lines 516-571
MountStartupLines(n) ==
  LET st == n.dn_Startup
      env == st.fssm_Environ
  IN (IF BstrFits(st.fssm_Device, NameBufSize)
      THEN << Line("Device =", BstrCopy(st.fssm_Device), << >>, 0) >>
      ELSE << >>)
     \o << Line("Unit =", << >>, << >>, st.fssm_Unit) >>
     \o (IF st.fssm_Flags # 0
         THEN << Line("Flags =", << >>, << >>, st.fssm_Flags) >> ELSE << >>)
     \o (IF env.null THEN << >>
         ELSE << Line("Geometry", << >>, << >>, 0) >>
              \o (IF env.de_TableSize >= DE_DOSTYPE_SIZE /\ env.de_DosType # DOS0
                  THEN << Line("DosType =", << >>, << >>, env.de_DosType) >>
                  ELSE << >>))

GenerateMountlist(deviceName, n) ==
  << Line("Mountlist entry for", deviceName, << >>, 0) >>
  \o (IF n.dn_Startup.null
      THEN << Line("No device information available", << >>, << >>, 0) >>
      ELSE MountHandlerLines(n) \o MountStartupLines(n))
  \o << Line("#", << >>, << >>, 0) >>

-----------------------------------------------------------------------------
(* main, lines 816-866 *)

\* line 817: deviceNode = FindDosDevice(cleanName)
main_NodeLookedUp ==
  /\ pc = "main_NodeLookedUp"
  /\ m' = [m EXCEPT !.deviceNode = f.result]
  /\ pc' = "main_Info"
  /\ UNCHANGED << typeTag, handlerPath, entry, stack, args, heap, head, forbidCnt, windowPtr,
                  startWindowPtr, res, d, u, f, c, p, out, trace, exitCode, envSteps >>

\* lines 820-822
main_Info ==
  /\ pc = "main_Info"
  /\ IF args.info /\ m.deviceNode # NULL
     THEN \E n \in Deref(m.deviceNode) :
            /\ out' = OPrintf(out, ShowDeviceInfo(m.cleanName, n))
            /\ trace' = Append(trace, "ShowDeviceInfo")
     ELSE UNCHANGED << out, trace >>
  /\ pc' = "main_Mountlist"
  /\ UNCHANGED << typeTag, handlerPath, entry, stack, args, heap, head, forbidCnt, windowPtr,
                  startWindowPtr, res, m, d, u, f, c, p, exitCode, envSteps >>

\* lines 825-827
main_Mountlist ==
  /\ pc = "main_Mountlist"
  /\ IF args.mountlist /\ m.deviceNode # NULL
     THEN \E n \in Deref(m.deviceNode) :
            /\ out' = OPrintf(out, GenerateMountlist(m.cleanName, n))
            /\ trace' = Append(trace, "GenerateMountlist")
     ELSE UNCHANGED << out, trace >>
  /\ pc' = "main_Status"
  /\ UNCHANGED << typeTag, handlerPath, entry, stack, args, heap, head, forbidCnt, windowPtr,
                  startWindowPtr, res, m, d, u, f, c, p, exitCode, envSteps >>

\* the status check skipped for INFO only
WantsStatus_InfoOnly(a) == ~a.info

\* line 830: if (!args.info && !args.mountlist)
WantsStatus(a) == ~a.info /\ ~a.mountlist

\* lines 830-831 and 855-858
main_Status ==
  /\ pc = "main_Status"
  /\ IF WantsStatus(args)
     THEN /\ c' = [StatusLocals EXCEPT !.deviceName = m.cleanName,
                                       !.volumeName = m.volumeName]
          /\ trace' = Append(trace, "CheckDeviceStatus")
          /\ Call("cds_Strip", "main_StatusChecked")
          /\ m' = m
     ELSE /\ m' = [m EXCEPT !.returnCode =
                      IF m.deviceNode # NULL THEN RC_OK ELSE m.returnCode]
          /\ pc' = "main_Exit"
          /\ UNCHANGED << c, trace, stack >>
  /\ UNCHANGED << typeTag, handlerPath, entry, args, heap, head, forbidCnt, windowPtr, startWindowPtr,
                  res, d, u, f, p, out, exitCode, envSteps >>

\* lines 833-853: the status line of each classification
StatusLines(status, cleanName, volumeName) ==
  CASE status = StatusMounted ->
         IF Len(volumeName) > 0
         THEN << Line("has mounted volume", cleanName, volumeName, 0) >>
         ELSE << Line("has mounted volume", cleanName, << >>, 0) >>
    [] status = StatusNoDisk -> << Line("no disk present", cleanName, << >>, 0) >>
    [] status = StatusNotFound -> << Line("device not found", cleanName, << >>, 0) >>
    [] OTHER -> << >>

\* a switch whose "no disk" case falls into the "mounted" case
ReturnCodeOf_NoDiskIsOk(status, old) ==
  CASE status = StatusMounted -> RC_OK
    [] status = StatusNoDisk -> RC_OK
    [] status = StatusNotFound -> RC_ERROR
    [] OTHER -> old

\* lines 833-853: the return code of each classification
ReturnCodeOf(status, old) ==
  CASE status = StatusMounted -> RC_OK
    [] status = StatusNoDisk -> RC_WARN
    [] status = StatusNotFound -> RC_ERROR
    [] OTHER -> old

main_StatusChecked ==
  /\ pc = "main_StatusChecked"
  /\ m' = [m EXCEPT !.status = c.status,
                    !.volumeName = c.volumeName,
                    !.returnCode = ReturnCodeOf(c.status, m.returnCode)]
  /\ out' = OPrintf(out, StatusLines(c.status, m.cleanName, c.volumeName))
  /\ pc' = "main_Exit"
  /\ UNCHANGED << typeTag, handlerPath, entry, stack, args, heap, head, forbidCnt, windowPtr,
                  startWindowPtr, res, d, u, f, c, p, trace, exitCode, envSteps >>

\* lines 861-866
main_Exit ==
  /\ pc = "main_Exit"
  /\ windowPtr' = RestoredWindowPtr(m.oldWindowPtr)
  /\ trace' = Append(trace, "FreeArgs")
  /\ ExitWith(m.returnCode, Release(res, "rdArgs"))
  /\ UNCHANGED << typeTag, handlerPath, entry, args, heap, head, forbidCnt, startWindowPtr, m, d, u, f,
                  c, p, out, envSteps >>

-----------------------------------------------------------------------------
(* CheckDeviceStatus, lines 652-719 *)

ID_NO_DISK_PRESENT == -1
ID_UNREADABLE_DISK == 1111573504
ID_DOS_DISK == 1146049280

\* what Info() may report as id_DiskType
DiskTypes == {ID_NO_DISK_PRESENT, ID_UNREADABLE_DISK, ID_DOS_DISK}

\* what the volume node's name may be: no node or no name, an empty name,
\* a short name, a name one character too long for volumeName
VolumeNames ==
  { NullBstr, Bstr(<< >>), Bstr(<< "W","o","r","k" >>),
    Bstr([i \in 1..(VolumeBufSize - 1) |-> "V"]) }

\* lines 667-670
cds_Strip ==
  /\ pc = "cds_Strip"
  /\ c' = [c EXCEPT !.cleanName = StripDeviceName(c.deviceName, NameBufSize)]
  /\ f' = [FindLocals EXCEPT !.deviceName = StripDeviceName(c.deviceName, NameBufSize)]
  /\ trace' = Append(trace, "FindDosDevice")
  /\ Call("fdd_Forbid", "cds_NodeLookedUp")
  /\ UNCHANGED << typeTag, handlerPath, entry, args, heap, head, forbidCnt, windowPtr, startWindowPtr,
                  res, m, d, u, p, out, exitCode, envSteps >>

\* lines 670-673
cds_NodeLookedUp ==
  /\ pc = "cds_NodeLookedUp"
  /\ c' = [c EXCEPT !.deviceNode = f.result]
  /\ IF f.result = NULL
     THEN Return
     ELSE pc' = "cds_Lock" /\ stack' = stack
  /\ UNCHANGED << typeTag, handlerPath, entry, args, heap, head, forbidCnt, windowPtr, startWindowPtr,
                  res, m, d, u, f, p, out, trace, exitCode, envSteps >>

\* the lock failure left at the default status
LockFailedStatus_Default == StatusNotFound

\* line 715: the status when the device is listed but cannot be locked
LockFailedStatus == StatusNoDisk

\* lines 676-679 and 713-718: lock = Lock("name:", ACCESS_READ); may block
cds_Lock ==
  /\ pc = "cds_Lock"
  /\ \E locked \in BOOLEAN :
       IF locked
       THEN /\ c' = [c EXCEPT !.lock = TRUE]
            /\ res' = Acquire(res, "lock")
            /\ pc' = "cds_AllocMem"
            /\ stack' = stack
       ELSE /\ c' = [c EXCEPT !.status = LockFailedStatus]
            /\ res' = res
            /\ Return
  /\ trace' = Append(trace, "Lock")
  /\ UNCHANGED << typeTag, handlerPath, entry, args, heap, head, forbidCnt, windowPtr, startWindowPtr,
                  m, d, u, f, p, out, exitCode, envSteps >>

\* lines 681-682
cds_AllocMem ==
  /\ pc = "cds_AllocMem"
  /\ \E ok \in BOOLEAN :
       IF ok
       THEN /\ c' = [c EXCEPT !.infoData = TRUE]
            /\ res' = Acquire(res, "infoData")
            /\ pc' = "cds_Info"
       ELSE /\ UNCHANGED << c, res >>
            /\ pc' = "cds_UnLock"
  /\ trace' = Append(trace, "AllocMem")
  /\ UNCHANGED << typeTag, handlerPath, entry, stack, args, heap, head, forbidCnt, windowPtr,
                  startWindowPtr, m, d, u, f, p, out, exitCode, envSteps >>

\* the disk type test inverted
InfoStatus_Inverted(infoOk, diskType, old) ==
  IF infoOk
  THEN (IF diskType = ID_NO_DISK_PRESENT THEN StatusMounted ELSE StatusNoDisk)
  ELSE old

\* lines 684-707: the status after Info()
InfoStatus(infoOk, diskType, old) ==
  IF infoOk
  THEN (IF diskType # ID_NO_DISK_PRESENT THEN StatusMounted ELSE StatusNoDisk)
  ELSE old

\* lines 690-703: the volume name copied out, "" when it does not decode
VolumeNameOf(b, volumeNameSize) ==
  IF ~b.null /\ LenByte(b) > 0 /\ LenByte(b) < volumeNameSize - 1
  THEN BstrCopy(b) ELSE << >>

\* lines 684-708: Info(lock, infoData); may block
cds_Info ==
  /\ pc = "cds_Info"
  /\ \E infoOk \in BOOLEAN, diskType \in DiskTypes, vol \in VolumeNames :
       c' = [c EXCEPT
               !.info = IF infoOk THEN "ok" ELSE "failed",
               !.id_DiskType = IF infoOk THEN diskType ELSE c.id_DiskType,
               !.status = InfoStatus(infoOk, diskType, c.status),
               !.volumeName =
                  IF InfoStatus(infoOk, diskType, c.status) = StatusMounted /\ infoOk
                  THEN VolumeNameOf(vol, VolumeBufSize)
                  ELSE c.volumeName]
  /\ trace' = Append(trace, "Info")
  /\ pc' = "cds_FreeMem"
  /\ UNCHANGED << typeTag, handlerPath, entry, stack, args, heap, head, forbidCnt, windowPtr,
                  startWindowPtr, res, m, d, u, f, p, out, exitCode, envSteps >>

\* line 709
cds_FreeMem ==
  /\ pc = "cds_FreeMem"
  /\ c' = [c EXCEPT !.infoData = FALSE]
  /\ res' = Release(res, "infoData")
  /\ trace' = Append(trace, "FreeMem")
  /\ pc' = "cds_UnLock"
  /\ UNCHANGED << typeTag, handlerPath, entry, stack, args, heap, head, forbidCnt, windowPtr,
                  startWindowPtr, m, d, u, f, p, out, exitCode, envSteps >>

\* lines 711 and 718: UnLock(lock); may block
cds_UnLock ==
  /\ pc = "cds_UnLock"
  /\ c' = [c EXCEPT !.lock = FALSE]
  /\ res' = Release(res, "lock")
  /\ trace' = Append(trace, "UnLock")
  /\ Return
  /\ UNCHANGED << typeTag, handlerPath, entry, args, heap, head, forbidCnt, windowPtr, startWindowPtr,
                  m, d, u, f, p, out, exitCode, envSteps >>

-----------------------------------------------------------------------------
(* FindMatchingDevices, lines 877-951 *)

\* lines 888-901
fmd_Start ==
  /\ pc = "FindMatchingDevices"
  /\ p' = [p EXCEPT !.pattern = args.pattern, !.deviceNode = head]
  /\ out' = OPrintf(out, << Line("Devices matching pattern", args.pattern, << >>, 0) >>)
  /\ forbidCnt' = forbidCnt + 1
  /\ pc' = "fmd_Scan"
  /\ UNCHANGED << typeTag, handlerPath, entry, stack, args, heap, head, windowPtr, startWindowPtr, res,
                  m, d, u, f, c, trace, exitCode, envSteps >>

\* lines 915-916: the pattern ends with * and devName starts with what precedes it
PatternMatches(devName, pattern) ==
  /\ Len(pattern) > 0
  /\ pattern[Len(pattern)] = "*"
  /\ StrnicmpEq(devName, pattern, Len(pattern) - 1)

\* the Permit() left out
GuardForStatus_Kept(cnt) == cnt

\* line 918: Permit() before the status check
GuardForStatus(cnt) == cnt - 1

\* lines 903-921 and 943: one turn of the loop up to the status check
fmd_Scan ==
  /\ pc = "fmd_Scan"
  /\ IF p.deviceNode = NULL
     THEN /\ pc' = "fmd_End"
          /\ UNCHANGED << p, c, forbidCnt, stack, trace >>
     ELSE \E n \in Deref(p.deviceNode) :
            IF BstrFits(n.dn_Name, NameBufSize)
               /\ PatternMatches(BstrCopy(n.dn_Name), p.pattern)
            THEN /\ p' = [p EXCEPT !.devName = BstrCopy(n.dn_Name), !.foundAny = TRUE]
                 /\ forbidCnt' = GuardForStatus(forbidCnt)
                 /\ c' = [StatusLocals EXCEPT !.deviceName = BstrCopy(n.dn_Name),
                                              !.volumeName = p.volumeName]
                 /\ trace' = Append(trace, "CheckDeviceStatus")
                 /\ Call("cds_Strip", "fmd_StatusChecked")
            ELSE /\ p' = [p EXCEPT
                            !.devName = IF BstrFits(n.dn_Name, NameBufSize)
                                        THEN BstrCopy(n.dn_Name) ELSE p.devName,
                            !.deviceNode = n.dn_Next]
                 /\ UNCHANGED << c, forbidCnt, pc, stack, trace >>
  /\ UNCHANGED << typeTag, handlerPath, entry, args, heap, head, windowPtr, startWindowPtr, res,
                  m, d, u, f, out, exitCode, envSteps >>

\* lines 922-934
MatchLines(status, devName, volumeName) ==
  CASE status = StatusMounted ->
         IF Len(volumeName) > 0
         THEN << Line("Volume", devName, volumeName, 0) >>
         ELSE << Line("Volume mounted", devName, << >>, 0) >>
    [] status = StatusNoDisk -> << Line("No disk present", devName, << >>, 0) >>
    [] OTHER -> << >>

\* lines 921-943: the status is printed, the guard is taken again and the
\* scan moves on through deviceNode->dn_Next
fmd_StatusChecked ==
  /\ pc = "fmd_StatusChecked"
  /\ \E n \in Deref(p.deviceNode) :
       p' = [p EXCEPT !.status = c.status,
                      !.volumeName = c.volumeName,
                      !.deviceNode = n.dn_Next]
  /\ out' = OPrintf(out, MatchLines(c.status, p.devName, c.volumeName))
  /\ forbidCnt' = forbidCnt + 1
  /\ pc' = "fmd_Scan"
  /\ UNCHANGED << typeTag, handlerPath, entry, stack, args, heap, head, windowPtr, startWindowPtr, res,
                  m, d, u, f, c, trace, exitCode, envSteps >>

\* lines 946-950
fmd_End ==
  /\ pc = "fmd_End"
  /\ forbidCnt' = forbidCnt - 1
  /\ out' = IF p.foundAny THEN out
            ELSE OPrintf(out, << Line("No devices found matching pattern",
                                      p.pattern, << >>, 0) >>)
  /\ pc' = "done"
  /\ UNCHANGED << typeTag, handlerPath, entry, stack, args, heap, head, windowPtr, startWindowPtr, res,
                  m, d, u, f, c, p, trace, exitCode, envSteps >>

-----------------------------------------------------------------------------
(* Other tasks *)

\* Another task removes a node from the device list and frees it.  It can
\* run only while this task does not hold the Forbid() guard.
EnvRemoveNode ==
  /\ forbidCnt = 0
  /\ pc \notin {"main", "FindMatchingDevices", "done"}
  /\ envSteps < MaxEnvSteps
  /\ \E a \in InList :
       /\ head' = IF head = a THEN heap[a].dn_Next ELSE head
       /\ heap' = [b \in DOMAIN heap |->
                     IF b = a THEN [heap[b] EXCEPT !.valid = FALSE]
                     ELSE IF heap[b].dn_Next = a /\ b \in InList
                     THEN [heap[b] EXCEPT !.dn_Next = heap[a].dn_Next]
                     ELSE heap[b]]
  /\ envSteps' = envSteps + 1
  /\ UNCHANGED << typeTag, handlerPath, entry, pc, stack, args, forbidCnt, windowPtr, startWindowPtr,
                  res, m, d, u, f, c, p, out, trace, exitCode >>

-----------------------------------------------------------------------------

Next ==
  \/ main_ReadArgs
  \/ cdd_CreateMsgPort
  \/ cdd_CreateIORequest
  \/ cdd_OpenDevice
  \/ cdd_CloseDevice
  \/ cdd_Cleanup
  \/ main_DriverChecked
  \/ fdu_Forbid
  \/ fdu_Scan
  \/ fdu_Permit
  \/ main_UnitResolved
  \/ fdd_Forbid
  \/ fdd_Scan
  \/ main_NodeLookedUp
  \/ main_Info
  \/ main_Mountlist
  \/ main_Status
  \/ main_StatusChecked
  \/ main_Exit
  \/ cds_Strip
  \/ cds_NodeLookedUp
  \/ cds_Lock
  \/ cds_AllocMem
  \/ cds_Info
  \/ cds_FreeMem
  \/ cds_UnLock
  \/ fmd_Start
  \/ fmd_Scan
  \/ fmd_StatusChecked
  \/ fmd_End
  \/ EnvRemoveNode

Spec == Init /\ [][Next]_vars

-----------------------------------------------------------------------------
(* GetHandlerFromDosType called on its own, lines 219-264 *)

\* A ULONG is held as the 32-bit two's-complement integer of the same bits:
\* tags from 0x80000000 up are the negative numbers.  Equality is the same
\* in both readings, and tag \div 256 (rounding down) compares the top three
\* bytes as (tag & 0xFFFFFF00) does.
TagBases ==
  { DOS0, PFS0, SFS0, NBU0, MUFS - 115, AFS0, MSD0,
    0,                         \* 0x00000000
    2147483392,                \* 0x7FFFFF00
    -2147483647 - 1,           \* 0x80000000
    MSD0 - 2147483647 - 1,     \* 0xCD534400: 'MSD' with the top bit set
    -256 }                     \* 0xFFFFFF00
DosTypes == {b + k : b \in TagBases, k \in 0..255}

InitDosType ==
  /\ entry = "GetHandlerFromDosType"
  /\ pc = entry
  /\ stack = << >>
  /\ args = [device |-> << >>, quiet |-> FALSE, driver |-> << >>, info |-> FALSE,
             mountlist |-> FALSE, pattern |-> << >>]
  /\ heap = HeapOf(<< >>)
  /\ head = NULL
  /\ forbidCnt = 0
  /\ windowPtr = NULL
  /\ startWindowPtr = windowPtr
  /\ res = [r \in Resources |-> [acq |-> 0, rel |-> 0]]
  /\ m = MainLocals
  /\ d = DriverLocals
  /\ u = UnitLocals
  /\ f = FindLocals
  /\ c = StatusLocals
  /\ p = MatchLocals
  /\ out = << >>
  /\ trace = << >>
  /\ exitCode = NoExit
  /\ envSteps = 0
  /\ typeTag \in DosTypes
  /\ handlerPath = Uninit

\* the whole function: it reads its argument and returns a string constant;
\* it writes no global, calls nothing and prints nothing
ghd_Return ==
  /\ pc = "GetHandlerFromDosType"
  /\ handlerPath' = GetHandlerFromDosType(typeTag)
  /\ pc' = "done"
  /\ UNCHANGED << typeTag, entry, stack, args, heap, head, forbidCnt, windowPtr,
                  startWindowPtr, res, m, d, u, f, c, p, out, trace, exitCode,
                  envSteps >>

NextDosType == ghd_Return

SpecDosType == InitDosType /\ [][NextDosType]_vars

-----------------------------------------------------------------------------
(* Properties *)

InTrace(e) == \E i \in 1..Len(trace) : trace[i] = e
Count(e) == Cardinality({i \in 1..Len(trace) : trace[i] = e})
LastCall == IF Len(trace) = 0 THEN "none" ELSE trace[Len(trace)]
Printed(k) == \E i \in 1..Len(out) : out[i].k = k

MainDone == entry = "main" /\ pc = "done"
\* INFO or MOUNTLIST was given on the command line
InfoOrMountlist == args.info \/ args.mountlist
StatusKinds == {"has mounted volume", "no disk present", "device not found"}
StatusLinePrinted == \E i \in 1..Len(out) : out[i].k \in StatusKinds
\* CheckDeviceStatus has just returned to its caller
StatusReturned == pc \in {"main_StatusChecked", "fmd_StatusChecked"}

\* a run of main that parsed its arguments, found the driver and asks for
\* the plain status
PlainStatusRun ==
  MainDone /\ m.rdArgs /\ d.available /\ ~InfoOrMountlist

\* C1 as stated: in a plain status run the exit code is 0 exactly when the
\* device classifies as Mounted, 5 exactly when NoMediaPresent and 10 exactly
\* when DeviceNotFound; every exit code is 0, 5, 10 or 20.
C1_ExitCodeIffClassification ==
  /\ PlainStatusRun =>
       /\ (exitCode = RC_OK <=> m.status = StatusMounted)
       /\ (exitCode = RC_WARN <=> m.status = StatusNoDisk)
       /\ (exitCode = RC_ERROR <=> m.status = StatusNotFound)
  /\ MainDone => exitCode \in {RC_OK, RC_WARN, RC_ERROR, RC_FAIL}

\* C1 amended: as above, but the exit code is 10 also when a numeric
\* identifier resolves to no entry, in which case nothing is classified.
C1_ExitCodeOfClassification ==
  /\ PlainStatusRun =>
       /\ (exitCode = RC_OK <=> m.status = StatusMounted)
       /\ (exitCode = RC_WARN <=> m.status = StatusNoDisk)
       /\ (exitCode = RC_ERROR <=>
             (m.status = StatusNotFound
              \/ (m.status = Unset /\ IsNumber(args.device) /\ ~u.found
                  /\ ~InTrace("CheckDeviceStatus"))))
       /\ m.status \in {StatusMounted, StatusNoDisk, StatusNotFound, Unset}
  /\ MainDone => exitCode \in {RC_OK, RC_WARN, RC_ERROR, RC_FAIL}

C1_Witness == PlainStatusRun /\ exitCode = RC_WARN /\ m.status = StatusNoDisk

\* the steps after the driver check
LaterCalls ==
  {"FindDeviceByDriverAndUnit", "FindDosDevice", "CheckDeviceStatus", "Lock",
   "AllocMem", "Info", "UnLock", "ShowDeviceInfo", "GenerateMountlist"}
DriverCheckPcs ==
  {"main", "cdd_CreateMsgPort", "cdd_CreateIORequest", "cdd_OpenDevice",
   "cdd_CloseDevice", "cdd_Cleanup", "main_DriverChecked"}

\* C2: once the driver check has returned unavailable the run has ended with
\* exit code 20, and no unit resolution, list lookup, path lock, status line,
\* info or mountlist rendering has happened.
C2_DriverUnavailableStops ==
  (entry = "main" /\ m.rdArgs /\ ~d.available /\ pc \notin DriverCheckPcs) =>
     /\ pc = "done"
     /\ exitCode = RC_FAIL
     /\ \A e \in LaterCalls : ~InTrace(e)
     /\ \A i \in 1..Len(out) : out[i].k = "driver not available"
     /\ u = UnitLocals /\ f = FindLocals /\ c = StatusLocals

C2_Witness == MainDone /\ m.rdArgs /\ ~d.available /\ exitCode = RC_FAIL

\* C3 as stated: with INFO and/or MOUNTLIST asked for and the resolved name
\* not in the list, nothing is rendered, the not-found status line is printed
\* (unless QUIET) and the exit code is 10.
C3_NotFoundLineWithInfo ==
  (MainDone /\ d.available /\ InfoOrMountlist /\ InTrace("FindDosDevice")
   /\ m.deviceNode = NULL /\ ~m.quiet) =>
     /\ ~InTrace("ShowDeviceInfo") /\ ~InTrace("GenerateMountlist")
     /\ Printed("device not found")
     /\ exitCode = RC_ERROR

\* the index of the first call of e in trace, 0 if there is none
FirstCall(e) ==
  IF InTrace(e) THEN CHOOSE i \in 1..Len(trace) :
                       trace[i] = e /\ \A j \in 1..(i - 1) : trace[j] # e
  ELSE 0

\* C4: with the device found, INFO and MOUNTLIST together render both, info
\* first; with either one no status line is printed, no classification
\* (CheckDeviceStatus, Lock, Info) is made and the exit code is 0.
C4_InfoMountlistNoStatus ==
  /\ (entry = "main" /\ InfoOrMountlist) =>
        /\ ~StatusLinePrinted
        /\ ~InTrace("CheckDeviceStatus") /\ ~InTrace("Lock") /\ ~InTrace("Info")
  /\ (MainDone /\ m.deviceNode # NULL /\ InfoOrMountlist) =>
        /\ exitCode = RC_OK
        /\ Count("ShowDeviceInfo") = (IF args.info THEN 1 ELSE 0)
        /\ Count("GenerateMountlist") = (IF args.mountlist THEN 1 ELSE 0)
        /\ (args.info /\ args.mountlist) =>
              FirstCall("ShowDeviceInfo") < FirstCall("GenerateMountlist")
        /\ (args.info /\ ~m.quiet) => Printed("Device Information for")
        /\ (args.mountlist /\ ~m.quiet) => Printed("Mountlist entry for")

C4_Witness ==
  MainDone /\ m.deviceNode # NULL /\ args.info /\ args.mountlist /\ ~m.quiet
  /\ exitCode = RC_OK

\* C5: when the device is in the list but Lock() fails, CheckDeviceStatus
\* returns 1 (NoMediaPresent), and main exits with code 5.
C5_LockFailureIsNoMedia ==
  /\ (StatusReturned /\ c.deviceNode # NULL /\ LastCall = "Lock") =>
        c.status = StatusNoDisk
  /\ (MainDone /\ m.status # Unset /\ c.deviceNode # NULL
      /\ Len(trace) >= 2 /\ trace[Len(trace) - 1] = "Lock") =>
        (m.status = StatusNoDisk /\ exitCode = RC_WARN)

C5_Witness ==
  MainDone /\ c.deviceNode # NULL /\ ~InTrace("UnLock") /\ InTrace("Lock")
  /\ exitCode = RC_WARN

\* the device was in the list and the lock was acquired in the call of
\* CheckDeviceStatus that has just returned
LockedAndReturned == StatusReturned /\ c.deviceNode # NULL /\ LastCall = "UnLock"

\* C6 as stated: with the device in the list and the lock acquired the result
\* is NoMediaPresent or Mounted, never DeviceNotFound.
C6_LockedNeverNotFound ==
  (entry = "main" /\ LockedAndReturned) => c.status \in {StatusNoDisk, StatusMounted}

\* C6 amended: with the device in the list, the lock acquired, the info block
\* allocated and Info() successful, the result is NoMediaPresent if the disk
\* type is the no-disk sentinel and Mounted otherwise; Mounted is returned
\* only then; if the info block cannot be allocated or Info() fails the
\* result is the default, DeviceNotFound.
C6_LockedClassification ==
  /\ LockedAndReturned =>
       /\ c.info = "ok" =>
            c.status = (IF c.id_DiskType = ID_NO_DISK_PRESENT
                        THEN StatusNoDisk ELSE StatusMounted)
       /\ c.info # "ok" => c.status = StatusNotFound
  /\ (StatusReturned /\ c.status = StatusMounted) =>
       (LockedAndReturned /\ c.info = "ok" /\ c.id_DiskType # ID_NO_DISK_PRESENT)

C6_Witness ==
  LockedAndReturned /\ c.info = "ok" /\ c.id_DiskType = ID_NO_DISK_PRESENT
  /\ c.status = StatusNoDisk

Balanced(r) == res[r].acq = res[r].rel

\* C7: no resource is released without being held, and each is released once
\* before its procedure returns: lock and info block in CheckDeviceStatus;
\* message port, IO request and device in CheckDeviceDriver (the device is
\* closed exactly when OpenDevice succeeded); the ReadArgs structure in main.
C7_ResourcesReleased ==
  /\ \A r \in Resources : res[r].rel <= res[r].acq /\ res[r].acq <= res[r].rel + 1
  /\ StatusReturned => (Balanced("lock") /\ Balanced("infoData"))
  /\ pc = "main_DriverChecked" =>
       /\ Balanced("msgPort") /\ Balanced("ioReq") /\ Balanced("device")
       /\ res["device"].rel = (IF d.error = 0 THEN 1 ELSE 0)
       /\ res["device"].acq = (IF d.error = 0 THEN 1 ELSE 0)
  /\ pc = "done" => \A r \in Resources : Balanced(r)
  /\ MainDone => res["rdArgs"].acq = (IF m.rdArgs THEN 1 ELSE 0)

C7_Witness ==
  MainDone /\ res["lock"].rel = 1 /\ res["infoData"].rel = 1
  /\ res["device"].rel = 1 /\ res["ioReq"].rel = 1 /\ res["msgPort"].rel = 1
  /\ res["rdArgs"].rel = 1

\* C8: pr_WindowPtr has its start value when main returns, on every path, and
\* every OpenDevice, Lock and Info of the run happens with requesters off.
C8_WindowPtrRestored ==
  /\ MainDone => windowPtr = startWindowPtr
  /\ (entry = "main" /\ pc \in {"cdd_OpenDevice", "cds_Lock", "cds_Info"}) =>
        windowPtr = WindowPtrSuppress
  /\ (entry = "main" /\ pc # "done" /\ m.rdArgs) => windowPtr = WindowPtrSuppress

C8_Witness ==
  MainDone /\ startWindowPtr # NULL /\ InTrace("Lock") /\ InTrace("OpenDevice")
  /\ windowPtr = startWindowPtr

BlockingPcs == {"cdd_OpenDevice", "cds_Lock", "cds_Info", "cds_UnLock"}
ScanReturnPcs == {"main_UnitResolved", "main_NodeLookedUp", "cds_NodeLookedUp", "done"}

\* C9: the Forbid() guard is not held when OpenDevice, Lock, Info or UnLock
\* is called, in runs of FindMatchingDevices too, and FindDosDevice,
\* FindDeviceByDriverAndUnit and FindMatchingDevices return with the guard
\* released.
C9_NoBlockingUnderForbid ==
  /\ forbidCnt \in {0, 1}
  /\ pc \in BlockingPcs => forbidCnt = 0
  /\ pc \in ScanReturnPcs => forbidCnt = 0

C9_Witness == entry = "FindMatchingDevices" /\ pc = "cds_Lock" /\ p.foundAny

\* C10 as stated, for main: an entry is never used after the guard under
\* which it was found was released, so the node that info rendering and
\* mountlist rendering read is still an entry of the list.
C10_NoStaleEntryUse ==
  /\ (pc = "main_Info" /\ args.info /\ m.deviceNode # NULL) =>
        (heap[m.deviceNode].valid /\ m.deviceNode \in InList)
  /\ (pc = "main_Mountlist" /\ args.mountlist /\ m.deviceNode # NULL) =>
        (heap[m.deviceNode].valid /\ m.deviceNode \in InList)

\* the claim's reading of the identifier, written without the program's helpers
DigitChars == {"0","1","2","3","4","5","6","7","8","9"}
AllDigits(str) == Len(str) > 0 /\ \A i \in 1..Len(str) : str[i] \in DigitChars
DropOneColon(str) ==
  IF Len(str) > 0 /\ str[Len(str)] = ":" THEN SubSeq(str, 1, Len(str) - 1) ELSE str
FirstChars(str, k) == IF Len(str) > k THEN SubSeq(str, 1, k) ELSE str
\* main is past the driver check and the driver is there
Resolving == entry = "main" /\ d.available /\ pc \notin DriverCheckPcs

\* C11 as stated: the driver+unit lookup is made exactly when the identifier
\* is non-empty and all digits; otherwise the name used is the identifier
\* with one trailing colon removed, and no driver+unit lookup is made.
C11_NumberOrNameAsStated ==
  Resolving =>
    /\ InTrace("FindDeviceByDriverAndUnit") <=> AllDigits(args.device)
    /\ ~AllDigits(args.device) => m.cleanName = DropOneColon(args.device)

\* C11 amended: as stated, but the identifier is first cut to the 107
\* characters the name buffer holds, then one trailing colon is removed.
C11_NumberOrName ==
  Resolving =>
    /\ InTrace("FindDeviceByDriverAndUnit") <=> AllDigits(args.device)
    /\ m.unitNum # Unset <=> AllDigits(args.device)
    /\ ~AllDigits(args.device) =>
         /\ m.cleanName = DropOneColon(FirstChars(args.device, NameBufSize - 1))
         /\ u = UnitLocals

C11_Witness ==
  /\ Resolving /\ pc = "done" /\ args.device = << "d","f","0",":",":" >>
  /\ m.cleanName = << "d","f","0",":" >>

\* the device list in list order, as it is linked now
RECURSIVE ListFrom(_, _)
ListFrom(a, fuel) ==
  IF a = NULL \/ fuel = 0 THEN << >>
  ELSE << heap[a] >> \o ListFrom(heap[a].dn_Next, fuel - 1)
DeviceList == ListFrom(head, Len(heap))

\* the entry has startup info naming this driver (any case) and this unit
StartupNames(n, driverName, unitNum) ==
  /\ ~n.dn_Startup.null
  /\ ~n.dn_Startup.fssm_Device.null
  /\ StricmpEq(n.dn_Startup.fssm_Device.chars, driverName)
  /\ n.dn_Startup.fssm_Unit = unitNum
StartupHits ==
  {i \in 1..Len(DeviceList) : StartupNames(DeviceList[i], u.driverName, u.unitNum)}

\* C12 as stated: when the scan of FindDeviceByDriverAndUnit is over, found
\* holds exactly when some entry names the requested driver and unit, and the
\* name handed back is that of the first such entry; main looks up that name,
\* and when not found it exits with code 10 without a lookup or a status check.
C12_FirstDriverUnitMatch ==
  /\ pc = "fdu_Permit" =>
       /\ u.found <=> StartupHits # {}
       /\ u.found =>
            \E i \in StartupHits :
              /\ \A j \in StartupHits : i <= j
              /\ ~DeviceList[i].dn_Name.null
              /\ u.foundName = DeviceList[i].dn_Name.chars
  /\ (Resolving /\ AllDigits(args.device) /\ pc \in {"main_NodeLookedUp", "done"}) =>
       /\ u.found => f.deviceName = u.foundName
       /\ ~u.found => /\ exitCode = RC_ERROR
                      /\ ~InTrace("FindDosDevice")
                      /\ ~InTrace("CheckDeviceStatus")

\* the addresses of the device list in list order
RECURSIVE AddrsFrom(_, _)
AddrsFrom(a, fuel) ==
  IF a = NULL \/ fuel = 0 THEN << >>
  ELSE << a >> \o AddrsFrom(heap[a].dn_Next, fuel - 1)
ListAddrs == AddrsFrom(head, Len(heap))

\* the entry's name is there, has 1 to 106 characters and equals name
\* without regard to case
DecodedNameIs(n, name) ==
  /\ ~n.dn_Name.null
  /\ n.dn_Name.len \in 1..(NameBufSize - 2)
  /\ StricmpEq(n.dn_Name.chars, name)
NameHits == {i \in 1..Len(ListAddrs) : DecodedNameIs(heap[ListAddrs[i]], f.deviceName)}
\* the first entry of that name, or none
FirstNamed ==
  IF NameHits = {} THEN NULL
  ELSE ListAddrs[CHOOSE i \in NameHits : \A j \in NameHits : i <= j]

HandlerRecorded(n) == ~n.dn_Handler.null /\ n.dn_Handler.len \in 1..(NameBufSize - 2)
TypeCodeKnown(n) ==
  /\ ~n.dn_Startup.null
  /\ ~n.dn_Startup.fssm_Environ.null
  /\ n.dn_Startup.fssm_Environ.de_TableSize >= DE_DOSTYPE_SIZE
  /\ n.dn_Startup.fssm_Environ.de_DosType # 0
HandlerByPriority(n) ==
  IF HandlerRecorded(n) THEN n.dn_Handler.chars
  ELSE IF TypeCodeKnown(n)
  THEN GetHandlerFromDosType(n.dn_Startup.fssm_Environ.de_DosType)
  ELSE L_FastFileSystem
HandlerLines == {i \in 1..Len(out) : out[i].k = "Handler ="}

\* C14 as stated: once GenerateMountlist has rendered an entry, the output
\* holds exactly one handler line; it names the entry's recorded handler if
\* one decodes, with or without startup info, else the handler mapped from a
\* non-zero type code of an extended geometry, else L:FastFileSystem marked
\* for review.
C14_OneHandlerLine ==
  (entry = "main" /\ InTrace("GenerateMountlist") /\ ~m.quiet /\ envSteps = 0) =>
    LET n == heap[m.deviceNode] IN
      /\ Cardinality(HandlerLines) = 1
      /\ \A i \in HandlerLines : out[i].s = HandlerByPriority(n)
      /\ Printed("Update as needed") <=> (~HandlerRecorded(n) /\ ~TypeCodeKnown(n))

\* the table of known tags, written out, and the handler each family has
KnownTags ==
  [t \in {1146049280, 1146049281, 1146049282, 1146049283,
          1146049284, 1146049285, 1146049286, 1146049287} |-> L_FastFileSystem]
  @@ [t \in {1346786048, 1346786049, 1346786050} |-> L_PFSFileSystem]
  @@ (1397117696 :> L_SmartFilesystem)
  @@ [t \in {1312969984, 1312970016} |-> L_NetBSDFileSystem]
  @@ (1836410483 :> L_MultiUserFileSystem)
  @@ [t \in {1095127808, 1095127809} |-> L_AmiFileSafe]
\* the top three bytes are 'M', 'S', 'D'
TopBytesMSD(t) == \E low \in 0..255 : t = 1297302528 + low
HandlerPaths ==
  { L_FastFileSystem, L_PFSFileSystem, L_SmartFilesystem, L_NetBSDFileSystem,
    L_MultiUserFileSystem, L_AmiFileSafe, L_CrossDOSFileSystem }

\* C15: GetHandlerFromDosType returns a handlerPath path for every tag: the
\* family's path for a tag of the known table, L:CrossDOSFileSystem for any
\* tag whose top three bytes are 'MSD', L:FastFileSystem for every other
\* tag; and the call leaves everything but its result as it was.
C15_HandlerOfDosType ==
  (entry = "GetHandlerFromDosType" /\ pc = "done") =>
    /\ handlerPath \in HandlerPaths
    /\ handlerPath = IF typeTag \in DOMAIN KnownTags THEN KnownTags[typeTag]
                 ELSE IF TopBytesMSD(typeTag) THEN L_CrossDOSFileSystem
                 ELSE L_FastFileSystem
    /\ out = << >> /\ trace = << >> /\ forbidCnt = 0 /\ exitCode = NoExit
    /\ windowPtr = startWindowPtr
    /\ \A r \in Resources : res[r].acq = 0 /\ res[r].rel = 0

\* the call returned for the tag 'MSD\1', which is in no case label
C15_Witness ==
  /\ entry = "GetHandlerFromDosType" /\ pc = "done"
  /\ typeTag = 1297302529
  /\ handlerPath = L_CrossDOSFileSystem

====
